---------------------------- MODULE Spec2Model ----------------------------
(***************************************************************************)
(* A model of the brandi backend: the store views (destination and order   *)
(* handlers), the product-creation data-access methods, the sender         *)
(* data-access methods and the seller-shop service.                        *)
(*                                                                         *)
(* Four specifications share the module:                                   *)
(*   Spec        the view handlers, one connection per request             *)
(*   SpecCreate  CreateProductDao on one connection, one transaction       *)
(*   SpecSender  SenderDao                                                 *)
(*   SpecSeller  SellerShopService over its DAO                            *)
(***************************************************************************)
EXTENDS Naturals, Sequences, FiniteSets, TLC

(***************************************************************************)
(* Bounds of the model.                                                    *)
(***************************************************************************)
\* concurrent requests served by the view layer
NumRequests == 2
\* rows of the products table before a product-creation request
MaxProducts == 2
\* account ids known to the sender tables
MaxUsers == 2

VARIABLES
    \* ---- view layer (Spec) ----
    handler,      \* handler[r]: the view method serving request r, "none" before arrival
    pc,           \* pc[r]: position of request r inside the handler
    malformed,    \* malformed[r]: parameters of the request whose value breaks its format
    connection,   \* connection[r]: the local name `connection`: "unbound", "open", "closed"
    calls,        \* calls[r]: the calls the handler made, in order, each with its outcome
    pending,      \* pending[r]: changes written on r's connection and not yet committed
    raised,       \* raised[r]: the exception propagating out of the handler, "none" if none
    retval,       \* retval[r]: << >> or <<response>>: the value the handler returns
    committed,    \* changes committed to the database
    \* ---- product creation (SpecCreate) ----
    db,           \* the committed tables: products, product_images, stocks, product_histories
    tx,           \* the tables as the request's connection sees them (its transaction)
    db0,          \* the committed tables when the request began
    found_rows,   \* whether the connection reports matched rows (rather than changed rows)
    cpc,          \* position of the product-creation request
    data,         \* the data dict the service passes to the DAO methods
    dao_calls,    \* the DAO calls made, in order, each with its outcome
    craised,      \* the exception propagating out of the request, "none" if none
    \* ---- SenderDao (SpecSender) ----
    customer_information,  \* customer_information[u]: << >> or <<row>> of account u
    accounts,              \* accounts[u]: << >> or <<row>> of account u
    sender_call,           \* << >> or <<the last SenderDao call with its outcome>>
    \* ---- SellerShopService (SpecSeller) ----
    seller_pc,    \* "idle", "in_dao" (the DAO method is running) or "returned"
    seller_call,  \* the service method called, with its connection and data
    dao_log,      \* the calls the service made to its DAO during this call
    seller_out    \* << >> or <<what the service call returned or raised>>

viewVars == <<handler, pc, malformed, connection, calls, pending, raised, retval, committed>>

createVars == <<db, tx, db0, found_rows, cpc, data, dao_calls, craised>>

senderVars == <<customer_information, accounts, sender_call>>

sellerVars == <<seller_pc, seller_call, dao_log, seller_out>>

vars == <<viewVars, createVars, senderVars, sellerVars>>

nonViewVars == <<createVars, senderVars, sellerVars>>

nonCreateVars == <<viewVars, senderVars, sellerVars>>

nonSenderVars == <<viewVars, createVars, sellerVars>>

nonSellerVars == <<viewVars, createVars, senderVars>>

Requests == 1..NumRequests

(***************************************************************************)
(* The view handlers of destination_view.py and store_order_view.py.       *)
(***************************************************************************)
Handlers ==
    { "DestinationDetailView.get", "DestinationView.get", "DestinationView.post",
      "DestinationView.delete", "StoreOrderView.get", "StoreOrderAddView.post" }

\* RuledParams with the EmailRule of senderEmail left out.
RuledParamsNoEmailRule(h) ==
    CASE h = "DestinationView.post" ->
            { [param |-> "user_id",     rule |-> "NumberRule"],
              [param |-> "phone",       rule |-> "PhoneRule"],
              [param |-> "post_number", rule |-> "PostalCodeRule"] }
      [] h = "DestinationView.delete" ->
            { [param |-> "destination_id", rule |-> "NumberRule"] }
      [] h = "StoreOrderAddView.post" ->
            { [param |-> "sale",           rule |-> "DecimalRule"],
              [param |-> "senderPhone",    rule |-> "PhoneRule"],
              [param |-> "recipientPhone", rule |-> "PhoneRule"],
              [param |-> "postNumber",     rule |-> "PostalCodeRule"] }
      [] OTHER -> {}

\* The parameters that @validate_params checks with a format rule, per handler.
RuledParams(h) ==
    CASE h = "DestinationView.post" ->
            { [param |-> "user_id",     rule |-> "NumberRule"],
              [param |-> "phone",       rule |-> "PhoneRule"],
              [param |-> "post_number", rule |-> "PostalCodeRule"] }
      [] h = "DestinationView.delete" ->
            { [param |-> "destination_id", rule |-> "NumberRule"] }
      [] h = "StoreOrderAddView.post" ->
            { [param |-> "sale",           rule |-> "DecimalRule"],
              [param |-> "senderPhone",    rule |-> "PhoneRule"],
              [param |-> "senderEmail",    rule |-> "EmailRule"],
              [param |-> "recipientPhone", rule |-> "PhoneRule"],
              [param |-> "postNumber",     rule |-> "PostalCodeRule"] }
      [] OTHER -> {}

\* The parameters of a handler that carry a phone number, a postal code, an
\* email address, a decimal or a numeric string, with the format each carries.
FormatParams(h) ==
    CASE h = "DestinationView.post" ->
            { [param |-> "user_id",     format |-> "numeric"],
              [param |-> "phone",       format |-> "phone"],
              [param |-> "post_number", format |-> "postal"] }
      [] h = "DestinationView.delete" ->
            { [param |-> "destination_id", format |-> "numeric"] }
      [] h = "StoreOrderAddView.post" ->
            { [param |-> "sale",           format |-> "decimal"],
              [param |-> "senderPhone",    format |-> "phone"],
              [param |-> "senderEmail",    format |-> "email"],
              [param |-> "recipientPhone", format |-> "phone"],
              [param |-> "postNumber",     format |-> "postal"] }
      [] OTHER -> {}

\* The format a rule of utils.rules enforces.
RuleFormat(rule) ==
    CASE rule = "NumberRule"     -> "numeric"
      [] rule = "PhoneRule"      -> "phone"
      [] rule = "PostalCodeRule" -> "postal"
      [] rule = "EmailRule"      -> "email"
      [] rule = "DecimalRule"    -> "decimal"

\* validate_params: the request is refused when a ruled parameter's value
\* breaks the format of its rule.
ValidateParamsRejects(h, bad) ==
    \E p \in RuledParams(h) :
        \E f \in bad : f.param = p.param /\ f.format = RuleFormat(p.rule)

\* CommitsOnSuccess with a commit in StoreOrderView.get as well.
CommitsOnSuccessAlsoOrderGet(h) ==
    h \in {"DestinationView.post", "DestinationView.delete", "StoreOrderAddView.post",
           "StoreOrderView.get"}

\* Handlers that call connection.commit() after the service returns.
CommitsOnSuccess(h) ==
    h \in {"DestinationView.post", "DestinationView.delete", "StoreOrderAddView.post"}

\* RollsBackOnError with the rollback of DestinationView.delete left out.
RollsBackOnErrorNotDelete(h) ==
    h \in {"DestinationView.post", "StoreOrderAddView.post"}

\* Handlers whose except-clause calls connection.rollback().
RollsBackOnError(h) ==
    h \in {"DestinationView.post", "DestinationView.delete", "StoreOrderAddView.post"}

\* What the service of a handler may return.
ServiceReturns(h) ==
    CASE h = "DestinationDetailView.get" -> { << >>, <<"destination">> }
      [] h = "DestinationView.get"       -> { << >>, <<"destination">> }
      [] h = "DestinationView.post"      -> { <<"None">> }
      [] h = "DestinationView.delete"    -> { <<"None">> }
      [] h = "StoreOrderView.get"        -> { <<"order_info">> }
      [] h = "StoreOrderAddView.post"    -> { <<"order_id">> }

\* Errors a service raises: the handlers treat every exception alike, so one
\* stands for all of them.
ServiceErrors == { "ServiceError" }

\* The return expression of a handler raises when it indexes an empty result.
ReturnRaises(h, v) == h = "DestinationDetailView.get" /\ v = << >>

\* SuccessResponse with the result of StoreOrderView.get left out.
SuccessResponseNoOrderResult(h, v) ==
    IF h \in {"DestinationView.post", "DestinationView.delete", "StoreOrderView.get"}
       THEN [body |-> [message |-> "success"], status |-> 200]
       ELSE IF h = "StoreOrderAddView.post"
               THEN [body |-> [message |-> "success", result |-> [order_id |-> v]],
                     status |-> 201]
               ELSE [body |-> [message |-> "success",
                               result |-> IF h = "DestinationDetailView.get"
                                             THEN <<v[1]>> ELSE v],
                     status |-> 200]

\* The value a handler returns on success, given what its service returned.
SuccessResponse(h, v) ==
    CASE h = "DestinationDetailView.get" ->
            [body |-> [message |-> "success", result |-> <<v[1]>>], status |-> 200]
      [] h = "DestinationView.get" ->
            [body |-> [message |-> "success", result |-> v], status |-> 200]
      [] h = "DestinationView.post" ->
            [body |-> [message |-> "success"], status |-> 200]
      [] h = "DestinationView.delete" ->
            [body |-> [message |-> "success"], status |-> 200]
      [] h = "StoreOrderView.get" ->
            [body |-> [message |-> "success", result |-> v], status |-> 200]
      [] h = "StoreOrderAddView.post" ->
            [body |-> [message |-> "success", result |-> [order_id |-> v]], status |-> 201]

Call(op, out) == [op |-> op, out |-> out]

ViewInit ==
    /\ handler = [r \in Requests |-> "none"]
    /\ pc = [r \in Requests |-> "idle"]
    /\ malformed = [r \in Requests |-> {}]
    /\ connection = [r \in Requests |-> "unbound"]
    /\ calls = [r \in Requests |-> << >>]
    /\ pending = [r \in Requests |-> {}]
    /\ raised = [r \in Requests |-> "none"]
    /\ retval = [r \in Requests |-> << >>]
    /\ committed = {}

\* A request arrives at a handler; @validate_params runs before the body.
Request(r) ==
    /\ pc[r] = "idle"
    /\ \E h \in Handlers : \E bad \in SUBSET FormatParams(h) :
          /\ handler' = [handler EXCEPT ![r] = h]
          /\ malformed' = [malformed EXCEPT ![r] = bad]
          /\ IF ValidateParamsRejects(h, bad)
                THEN /\ raised' = [raised EXCEPT ![r] = "InvalidRequest"]
                     /\ pc' = [pc EXCEPT ![r] = "done"]
                ELSE /\ pc' = [pc EXCEPT ![r] = "try"]
                     /\ UNCHANGED raised
    /\ UNCHANGED <<connection, calls, pending, retval, committed>>
    /\ UNCHANGED nonViewVars

\* try: connection = get_connection(self.database)
GetConnection(r) ==
    /\ pc[r] = "try"
    /\ \/ /\ connection' = [connection EXCEPT ![r] = "open"]
          /\ calls' = [calls EXCEPT ![r] = Append(@, Call("get_connection", "ok"))]
          /\ pc' = [pc EXCEPT ![r] = "service"]
          /\ UNCHANGED raised
       \/ /\ calls' = [calls EXCEPT ![r] = Append(@, Call("get_connection", "ConnectError"))]
          /\ raised' = [raised EXCEPT ![r] = "ConnectError"]
          /\ pc' = [pc EXCEPT ![r] = "except"]
          /\ UNCHANGED connection
    /\ UNCHANGED <<handler, malformed, pending, retval, committed>>
    /\ UNCHANGED nonViewVars

\* The service call, and for a handler that does not commit, its return
\* expression.  A handler that commits keeps what the service returned (as
\* StoreOrderAddView.post keeps order_id) until its return after the commit.
ServiceCall(r) ==
    /\ pc[r] = "service"
    /\ \/ \E v \in ServiceReturns(handler[r]) :
            /\ calls' = [calls EXCEPT ![r] = Append(@, Call("service", "ok"))]
            /\ pending' = [pending EXCEPT ![r] =
                            IF CommitsOnSuccess(handler[r]) THEN {r} ELSE {}]
            /\ IF CommitsOnSuccess(handler[r])
                  THEN /\ retval' = [retval EXCEPT ![r] = <<v>>]
                       /\ pc' = [pc EXCEPT ![r] = "commit"]
                       /\ UNCHANGED raised
                  ELSE IF ReturnRaises(handler[r], v)
                          THEN /\ raised' = [raised EXCEPT ![r] = "IndexError"]
                               /\ pc' = [pc EXCEPT ![r] = "except"]
                               /\ UNCHANGED retval
                          ELSE /\ retval' = [retval EXCEPT ![r] =
                                               <<SuccessResponse(handler[r], v)>>]
                               /\ pc' = [pc EXCEPT ![r] = "finally"]
                               /\ UNCHANGED raised
       \/ \E e \in ServiceErrors : \E wrote \in BOOLEAN :
            /\ calls' = [calls EXCEPT ![r] = Append(@, Call("service", e))]
            /\ pending' = [pending EXCEPT ![r] =
                            IF wrote /\ CommitsOnSuccess(handler[r]) THEN {r} ELSE {}]
            /\ raised' = [raised EXCEPT ![r] = e]
            /\ pc' = [pc EXCEPT ![r] = "except"]
            /\ UNCHANGED retval
    /\ UNCHANGED <<handler, malformed, connection, committed>>
    /\ UNCHANGED nonViewVars

\* Commit on a connection shared by the requests: it commits what every
\* request has written and not committed.
CommitSharedConnection(r) ==
    /\ pc[r] = "commit"
    /\ \/ /\ calls' = [calls EXCEPT ![r] = Append(@, Call("commit", "ok"))]
          /\ committed' = committed \cup UNION { pending[q] : q \in Requests }
          /\ pending' = [q \in Requests |-> {}]
          /\ retval' = [retval EXCEPT ![r] = <<SuccessResponse(handler[r], retval[r][1])>>]
          /\ pc' = [pc EXCEPT ![r] = "finally"]
          /\ UNCHANGED raised
       \/ /\ calls' = [calls EXCEPT ![r] = Append(@, Call("commit", "CommitError"))]
          /\ raised' = [raised EXCEPT ![r] = "CommitError"]
          /\ retval' = [retval EXCEPT ![r] = << >>]
          /\ pc' = [pc EXCEPT ![r] = "except"]
          /\ UNCHANGED <<committed, pending>>
    /\ UNCHANGED <<handler, malformed, connection>>
    /\ UNCHANGED nonViewVars

\* connection.commit(), then the return expression.
Commit(r) ==
    /\ pc[r] = "commit"
    /\ \/ /\ calls' = [calls EXCEPT ![r] = Append(@, Call("commit", "ok"))]
          /\ committed' = committed \cup pending[r]
          /\ pending' = [pending EXCEPT ![r] = {}]
          /\ retval' = [retval EXCEPT ![r] = <<SuccessResponse(handler[r], retval[r][1])>>]
          /\ pc' = [pc EXCEPT ![r] = "finally"]
          /\ UNCHANGED raised
       \/ /\ calls' = [calls EXCEPT ![r] = Append(@, Call("commit", "CommitError"))]
          /\ raised' = [raised EXCEPT ![r] = "CommitError"]
          /\ retval' = [retval EXCEPT ![r] = << >>]
          /\ pc' = [pc EXCEPT ![r] = "except"]
          /\ UNCHANGED <<committed, pending>>
    /\ UNCHANGED <<handler, malformed, connection>>
    /\ UNCHANGED nonViewVars

\* except Exception as e: [connection.rollback()]; raise e
Except(r) ==
    /\ pc[r] = "except"
    /\ IF RollsBackOnError(handler[r])
          THEN \/ /\ connection[r] = "unbound"
                  /\ raised' = [raised EXCEPT ![r] = "UnboundLocalError"]
                  /\ UNCHANGED <<calls, pending>>
               \/ /\ connection[r] # "unbound"
                  /\ calls' = [calls EXCEPT ![r] = Append(@, Call("rollback", "ok"))]
                  /\ pending' = [pending EXCEPT ![r] = {}]
                  /\ UNCHANGED raised
               \/ /\ connection[r] # "unbound"
                  /\ calls' = [calls EXCEPT ![r] = Append(@, Call("rollback", "RollbackError"))]
                  /\ raised' = [raised EXCEPT ![r] = "RollbackError"]
                  /\ UNCHANGED pending
          ELSE UNCHANGED <<calls, pending, raised>>
    /\ pc' = [pc EXCEPT ![r] = "finally"]
    /\ UNCHANGED <<handler, malformed, connection, retval, committed>>
    /\ UNCHANGED nonViewVars

\* Finally with the close left to the success path only (no finally-clause).
FinallyCloseOnSuccessOnly(r) ==
    /\ pc[r] = "finally"
    /\ IF raised[r] = "none" /\ connection[r] # "unbound"
          THEN /\ calls' = [calls EXCEPT ![r] = Append(@, Call("close", "ok"))]
               /\ connection' = [connection EXCEPT ![r] = "closed"]
               /\ pending' = [pending EXCEPT ![r] = {}]
          ELSE UNCHANGED <<connection, calls, pending>>
    /\ pc' = [pc EXCEPT ![r] = "done"]
    /\ UNCHANGED <<handler, malformed, committed, raised, retval>>
    /\ UNCHANGED nonViewVars

\* Finally as if `connection = None` preceded the try: an unacquired
\* connection is skipped and the propagating exception is kept.
FinallyConnectionNone(r) ==
    /\ pc[r] = "finally"
    /\ \/ /\ connection[r] = "unbound"
          /\ UNCHANGED <<connection, calls, pending, raised, retval>>
       \/ /\ connection[r] # "unbound"
          /\ calls' = [calls EXCEPT ![r] = Append(@, Call("close", "ok"))]
          /\ connection' = [connection EXCEPT ![r] = "closed"]
          /\ pending' = [pending EXCEPT ![r] = {}]
          /\ UNCHANGED <<raised, retval>>
       \/ /\ connection[r] # "unbound"
          /\ calls' = [calls EXCEPT ![r] = Append(@, Call("close", "CloseError"))]
          /\ connection' = [connection EXCEPT ![r] = "closed"]
          /\ pending' = [pending EXCEPT ![r] = {}]
          /\ raised' = [raised EXCEPT ![r] = "DatabaseCloseFail"]
          /\ retval' = [retval EXCEPT ![r] = << >>]
    /\ pc' = [pc EXCEPT ![r] = "done"]
    /\ UNCHANGED <<handler, malformed, committed>>
    /\ UNCHANGED nonViewVars

\* Finally with the error of close() swallowed (except Exception: pass).
FinallyCloseErrorSwallowed(r) ==
    /\ pc[r] = "finally"
    /\ \/ /\ connection[r] = "unbound"
          /\ raised' = [raised EXCEPT ![r] = "DatabaseCloseFail"]
          /\ retval' = [retval EXCEPT ![r] = << >>]
          /\ UNCHANGED <<connection, calls, pending>>
       \/ /\ connection[r] # "unbound"
          /\ \E out \in {"ok", "CloseError"} :
                calls' = [calls EXCEPT ![r] = Append(@, Call("close", out))]
          /\ connection' = [connection EXCEPT ![r] = "closed"]
          /\ pending' = [pending EXCEPT ![r] = {}]
          /\ UNCHANGED <<raised, retval>>
    /\ pc' = [pc EXCEPT ![r] = "done"]
    /\ UNCHANGED <<handler, malformed, committed>>
    /\ UNCHANGED nonViewVars

\* finally: try: if connection: connection.close()
\*          except Exception: raise DatabaseCloseFail
\* The driver marks the connection closed before close() can fail, and the
\* server discards what the connection left uncommitted.
Finally(r) ==
    /\ pc[r] = "finally"
    /\ \/ /\ connection[r] = "unbound"
          /\ raised' = [raised EXCEPT ![r] = "DatabaseCloseFail"]
          /\ retval' = [retval EXCEPT ![r] = << >>]
          /\ UNCHANGED <<connection, calls, pending>>
       \/ /\ connection[r] # "unbound"
          /\ calls' = [calls EXCEPT ![r] = Append(@, Call("close", "ok"))]
          /\ connection' = [connection EXCEPT ![r] = "closed"]
          /\ pending' = [pending EXCEPT ![r] = {}]
          /\ UNCHANGED <<raised, retval>>
       \/ /\ connection[r] # "unbound"
          /\ calls' = [calls EXCEPT ![r] = Append(@, Call("close", "CloseError"))]
          /\ connection' = [connection EXCEPT ![r] = "closed"]
          /\ pending' = [pending EXCEPT ![r] = {}]
          /\ raised' = [raised EXCEPT ![r] = "DatabaseCloseFail"]
          /\ retval' = [retval EXCEPT ![r] = << >>]
    /\ pc' = [pc EXCEPT ![r] = "done"]
    /\ UNCHANGED <<handler, malformed, committed>>
    /\ UNCHANGED nonViewVars

ViewNext ==
    \E r \in Requests :
        \/ Request(r)
        \/ GetConnection(r)
        \/ ServiceCall(r)
        \/ Commit(r)
        \/ Except(r)
        \/ Finally(r)

(***************************************************************************)
(* CreateProductDao (create_product_dao.py) on one connection.             *)
(***************************************************************************)
NULL == "NULL"

None == << >>

ProductCodes == { "P1", "P2" }

ProductIds == 1..(MaxProducts + 1)

\* What a method does: return a value, or raise an error.
Return(v) == [kind |-> "return", value |-> v, error |-> "none"]

Raise(e) == [kind |-> "raise", value |-> None, error |-> e]

EmptyTables ==
    [products |-> << >>, product_images |-> << >>, stocks |-> << >>,
     product_histories |-> << >>]

\* cursor.execute of an INSERT: the server inserts the row, giving it the next
\* auto-increment id, or inserts nothing; rowcount and lastrowid follow.
ExecuteInsert(t, table, row, outcome) ==
    IF outcome = "inserted"
       THEN [tx |-> [t EXCEPT ![table] = Append(@, row)],
             rowcount |-> 1, lastrowid |-> Len(t[table]) + 1]
       ELSE [tx |-> t, rowcount |-> 0, lastrowid |-> 0]

\* ExecuteUpdateCode with the condition is_deleted = 0 left out of the WHERE.
ExecuteUpdateCodeAnyRow(t, d, found) ==
    LET matched == { i \in 1..Len(t.products) : i = d.product_id }
        changed == { i \in matched : t.products[i].product_code # d.product_code }
    IN  [tx |-> [t EXCEPT !.products =
                    [i \in 1..Len(t.products) |->
                        IF i \in matched
                           THEN [t.products[i] EXCEPT !.product_code = d.product_code]
                           ELSE t.products[i]]],
         rowcount |-> IF found THEN Cardinality(matched) ELSE Cardinality(changed)]

\* cursor.execute of the UPDATE of update_product_code: rows with the given id
\* that are not deleted get the code; the count is of the rows matched when
\* the connection reports found rows, of the rows changed otherwise.
ExecuteUpdateCode(t, d, found) ==
    LET matched == { i \in 1..Len(t.products) :
                        i = d.product_id /\ t.products[i].is_deleted = 0 }
        changed == { i \in matched : t.products[i].product_code # d.product_code }
    IN  [tx |-> [t EXCEPT !.products =
                    [i \in 1..Len(t.products) |->
                        IF i \in matched
                           THEN [t.products[i] EXCEPT !.product_code = d.product_code]
                           ELSE t.products[i]]],
         rowcount |-> IF found THEN Cardinality(matched) ELSE Cardinality(changed)]

insert_product(t, d, outcome) ==
    IF outcome = "error" THEN [tx |-> t, out |-> Raise("DriverError")]
    ELSE LET ex == ExecuteInsert(t, "products",
                                 [product_code |-> NULL, is_deleted |-> 0], outcome)
             product_id == ex.lastrowid
         IN  [tx |-> ex.tx,
              out |-> IF product_id = 0 THEN Raise("ProductCreateDenied")
                      ELSE Return(<<product_id>>)]

update_product_code(t, d, found, outcome) ==
    IF outcome = "error" THEN [tx |-> t, out |-> Raise("DriverError")]
    ELSE LET ex == ExecuteUpdateCode(t, d, found)
             result == ex.rowcount
         IN  [tx |-> ex.tx,
              out |-> IF result = 0 THEN Raise("ProductCodeUpdatedDenied")
                      ELSE Return(None)]

insert_product_image(t, d, outcome) ==
    IF outcome = "error" THEN [tx |-> t, out |-> Raise("DriverError")]
    ELSE LET ex == ExecuteInsert(t, "product_images",
                                 [product_id |-> d.product_id], outcome)
             result == ex.lastrowid
         IN  [tx |-> ex.tx,
              out |-> IF result = 0 THEN Raise("ProductImageCreateDenied")
                      ELSE Return(None)]

\* insert_stock without its check of the affected rows.
insert_stock_unchecked(t, d, outcome) ==
    IF outcome = "error" THEN [tx |-> t, out |-> Raise("DriverError")]
    ELSE [tx |-> ExecuteInsert(t, "stocks", [product_id |-> d.product_id], outcome).tx,
          out |-> Return(None)]

insert_stock(t, d, outcome) ==
    IF outcome = "error" THEN [tx |-> t, out |-> Raise("DriverError")]
    ELSE LET ex == ExecuteInsert(t, "stocks", [product_id |-> d.product_id], outcome)
             result == ex.rowcount
         IN  [tx |-> ex.tx,
              out |-> IF result = 0 THEN Raise("StockCreateDenied")
                      ELSE Return(None)]

\* insert_product_history raising the error of insert_stock.
insert_product_history_stock_error(t, d, outcome) ==
    IF outcome = "error" THEN [tx |-> t, out |-> Raise("DriverError")]
    ELSE LET ex == ExecuteInsert(t, "product_histories",
                                 [product_id |-> d.product_id], outcome)
             result == ex.rowcount
         IN  [tx |-> ex.tx,
              out |-> IF result = 0 THEN Raise("StockCreateDenied")
                      ELSE Return(None)]

insert_product_history(t, d, outcome) ==
    IF outcome = "error" THEN [tx |-> t, out |-> Raise("DriverError")]
    ELSE LET ex == ExecuteInsert(t, "product_histories",
                                 [product_id |-> d.product_id], outcome)
             result == ex.rowcount
         IN  [tx |-> ex.tx,
              out |-> IF result = 0 THEN Raise("ProductHistoryCreateDenied")
                      ELSE Return(None)]

InsertOutcomes == { "inserted", "none", "error" }

UpdateOutcomes == { "executed", "error" }

ProductRows == [product_code : ProductCodes \cup {NULL}, is_deleted : {0, 1}]

\* A DAO call as the log keeps it: the method, the data it got, what the
\* statement did, the tables before and after, and the method's outcome.
DaoCall(method, d, outcome, before, res) ==
    [method |-> method, data |-> d, exec |-> outcome,
     before |-> before, after |-> res.tx, out |-> res.out]

CreateIdle ==
    /\ db = EmptyTables
    /\ tx = EmptyTables
    /\ db0 = EmptyTables
    /\ found_rows = FALSE
    /\ cpc = "idle"
    /\ data = [product_id |-> 0, product_code |-> NULL]
    /\ dao_calls = << >>
    /\ craised = "none"

\* The database before the request: up to MaxProducts products, deleted or not.
CreateInit ==
    /\ \E n \in 0..MaxProducts : \E rows \in [1..n -> ProductRows] :
          /\ db = [EmptyTables EXCEPT !.products = rows]
          /\ tx = db
          /\ db0 = db
    /\ found_rows \in BOOLEAN
    /\ cpc = "insert_product"
    /\ data = [product_id |-> 0, product_code |-> NULL]
    /\ dao_calls = << >>
    /\ craised = "none"

\* After a DAO call: on to the next step, or to the except-clause.
AfterDao(res, next) ==
    /\ tx' = res.tx
    /\ IF res.out.kind = "raise"
          THEN /\ craised' = res.out.error
               /\ cpc' = "except"
          ELSE /\ cpc' = next
               /\ UNCHANGED craised

\* product_id = insert_product(connection, data); the service then fills in
\* the product id and product code the later methods are given.
InsertProduct ==
    /\ cpc = "insert_product"
    /\ \E outcome \in InsertOutcomes :
         LET res == insert_product(tx, data, outcome) IN
            /\ dao_calls' = Append(dao_calls,
                                   DaoCall("insert_product", data, outcome, tx, res))
            /\ AfterDao(res, "update_product_code")
    /\ \E id \in ProductIds : \E code \in ProductCodes :
          data' = [product_id |-> id, product_code |-> code]
    /\ UNCHANGED <<db, db0, found_rows>>
    /\ UNCHANGED nonCreateVars

UpdateProductCode ==
    /\ cpc = "update_product_code"
    /\ \E outcome \in UpdateOutcomes :
         LET res == update_product_code(tx, data, found_rows, outcome) IN
            /\ dao_calls' = Append(dao_calls,
                                   DaoCall("update_product_code", data, outcome, tx, res))
            /\ AfterDao(res, "insert_product_image")
    /\ UNCHANGED <<db, db0, found_rows, data>>
    /\ UNCHANGED nonCreateVars

InsertProductImage ==
    /\ cpc = "insert_product_image"
    /\ \E outcome \in InsertOutcomes :
         LET res == insert_product_image(tx, data, outcome) IN
            /\ dao_calls' = Append(dao_calls,
                                   DaoCall("insert_product_image", data, outcome, tx, res))
            /\ AfterDao(res, "insert_stock")
    /\ UNCHANGED <<db, db0, found_rows, data>>
    /\ UNCHANGED nonCreateVars

InsertStock ==
    /\ cpc = "insert_stock"
    /\ \E outcome \in InsertOutcomes :
         LET res == insert_stock(tx, data, outcome) IN
            /\ dao_calls' = Append(dao_calls,
                                   DaoCall("insert_stock", data, outcome, tx, res))
            /\ AfterDao(res, "insert_product_history")
    /\ UNCHANGED <<db, db0, found_rows, data>>
    /\ UNCHANGED nonCreateVars

InsertProductHistory ==
    /\ cpc = "insert_product_history"
    /\ \E outcome \in InsertOutcomes :
         LET res == insert_product_history(tx, data, outcome) IN
            /\ dao_calls' = Append(dao_calls,
                                   DaoCall("insert_product_history", data, outcome, tx, res))
            /\ AfterDao(res, "commit")
    /\ UNCHANGED <<db, db0, found_rows, data>>
    /\ UNCHANGED nonCreateVars

\* connection.commit()
CreateCommit ==
    /\ cpc = "commit"
    /\ \/ /\ db' = tx
          /\ cpc' = "finally"
          /\ UNCHANGED craised
       \/ /\ craised' = "CommitError"
          /\ cpc' = "except"
          /\ UNCHANGED db
    /\ UNCHANGED <<tx, db0, found_rows, data, dao_calls>>
    /\ UNCHANGED nonCreateVars

\* except Exception as e: connection.rollback(); raise e
CreateExcept ==
    /\ cpc = "except"
    /\ \/ /\ tx' = db
          /\ UNCHANGED craised
       \/ /\ craised' = "RollbackError"
          /\ UNCHANGED tx
    /\ cpc' = "finally"
    /\ UNCHANGED <<db, db0, found_rows, data, dao_calls>>
    /\ UNCHANGED nonCreateVars

\* finally: connection.close(); what was not committed is discarded.
CreateFinally ==
    /\ cpc = "finally"
    /\ \/ UNCHANGED craised
       \/ craised' = "DatabaseCloseFail"
    /\ tx' = db
    /\ cpc' = "done"
    /\ UNCHANGED <<db, db0, found_rows, data, dao_calls>>
    /\ UNCHANGED nonCreateVars

CreateNext ==
    \/ InsertProduct
    \/ UpdateProductCode
    \/ InsertProductImage
    \/ InsertStock
    \/ InsertProductHistory
    \/ CreateCommit
    \/ CreateExcept
    \/ CreateFinally

(***************************************************************************)
(* SenderDao (sender_dao.py).                                              *)
(***************************************************************************)
UserIds == 1..MaxUsers

SenderNames == { "", "kim" }

SenderPhones == { "", "01012341234" }

SenderEmails == { "kim@brandi.com" }

PermissionTypes == { "1", "3" }

CustomerRows == [name : SenderNames, phone : SenderPhones, email : SenderEmails]

AccountRows == [permission_type_id : PermissionTypes]

\* The data dicts the service passes: with the key user_id, or without it.
SenderData == { [user_id |-> u] : u \in UserIds } \cup { [order_id |-> 1] }

QueryOutcomes == { "executed", "error" }

\* except Exception: traceback.print_exc(); raise ServerError('server_error')
\* Every exception the try-body raises leaves as ServerError.
ExceptExceptionServerError(body) ==
    IF body.kind = "raise" THEN Raise("ServerError('server_error')") ELSE body

\* The try-body of get_sender_info_dao.
SenderInfoBody(table, d, outcome) ==
    IF "user_id" \notin DOMAIN d THEN Raise("KeyError('user_id')")
    ELSE IF outcome = "error" THEN Raise("DriverError")
    ELSE LET result == table[d.user_id]
         IN  IF result = << >>
                THEN Return(<<[name |-> "", phone |-> "", email |-> ""]>>)
                ELSE Return(result)

\* get_sender_info_dao raising on a missing row.
get_sender_info_dao_raising(table, d, outcome) ==
    ExceptExceptionServerError(
        IF "user_id" \in DOMAIN d /\ outcome = "executed" /\ table[d.user_id] = << >>
           THEN Raise("AccountNotExist('account_does_not_exist')")
           ELSE SenderInfoBody(table, d, outcome))

get_sender_info_dao(table, d, outcome) ==
    ExceptExceptionServerError(SenderInfoBody(table, d, outcome))

\* The try-body of get_user_permission_check_dao.
UserPermissionBody(table, d, outcome) ==
    IF "user_id" \notin DOMAIN d THEN Raise("KeyError('user_id')")
    ELSE IF outcome = "error" THEN Raise("DriverError")
    ELSE LET result == table[d.user_id]
         IN  IF result = << >>
                THEN Raise("AccountNotExist('account_does_not_exist')")
                ELSE Return(result)

get_user_permission_check_dao(table, d, outcome) ==
    ExceptExceptionServerError(UserPermissionBody(table, d, outcome))

SenderCall(method, d, outcome, out) ==
    [method |-> method, data |-> d, exec |-> outcome, out |-> out]

SenderIdle ==
    /\ customer_information = [u \in UserIds |-> << >>]
    /\ accounts = [u \in UserIds |-> << >>]
    /\ sender_call = << >>

\* The tables hold at most one row per account.
SenderInit ==
    /\ customer_information \in [UserIds -> {<< >>} \cup { <<row>> : row \in CustomerRows }]
    /\ accounts \in [UserIds -> {<< >>} \cup { <<row>> : row \in AccountRows }]
    /\ sender_call = << >>

GetSenderInfo ==
    /\ \E d \in SenderData : \E outcome \in QueryOutcomes :
          sender_call' = << SenderCall("get_sender_info_dao", d, outcome,
                               get_sender_info_dao(customer_information, d, outcome)) >>
    /\ UNCHANGED <<customer_information, accounts>>
    /\ UNCHANGED nonSenderVars

GetUserPermissionCheck ==
    /\ \E d \in SenderData : \E outcome \in QueryOutcomes :
          sender_call' = << SenderCall("get_user_permission_check_dao", d, outcome,
                               get_user_permission_check_dao(accounts, d, outcome)) >>
    /\ UNCHANGED <<customer_information, accounts>>
    /\ UNCHANGED nonSenderVars

SenderNext == GetSenderInfo \/ GetUserPermissionCheck

(***************************************************************************)
(* SellerShopService (seller_shop_service.py) over its seller_shop_dao.    *)
(***************************************************************************)
ServiceMethods ==
    { "get_seller_info_service", "get_seller_product_search_service",
      "get_seller_category_service", "get_seller_product_list_service" }

\* DaoMethodOf with the product list served by the product search.
DaoMethodOfSearchForList(m) ==
    CASE m = "get_seller_info_service"           -> "get_seller_info_dao"
      [] m = "get_seller_product_search_service" -> "get_seller_product_search_dao"
      [] m = "get_seller_category_service"       -> "get_seller_category_dao"
      [] m = "get_seller_product_list_service"   -> "get_seller_product_search_dao"

\* The DAO method each service method calls.
DaoMethodOf(m) ==
    CASE m = "get_seller_info_service"           -> "get_seller_info_dao"
      [] m = "get_seller_product_search_service" -> "get_seller_product_search_dao"
      [] m = "get_seller_category_service"       -> "get_seller_category_dao"
      [] m = "get_seller_product_list_service"   -> "get_seller_product_list_dao"

SellerConnections == { "conn1", "conn2" }

SellerData == { [seller_id |-> 1], [seller_id |-> 2] }

\* What the DAO may do: return rows, raise a KeyError, or raise another error.
DaoKeyErrors == { "KeyError('seller_id')", "KeyError('key_error')" }

DaoOtherErrors == { "SellerNotExist('seller_does_not_exist')", "ServerError('server_error')" }

DaoResults ==
    { Return(v) : v \in { << >>, <<"row1">>, <<"row1", "row2">> } }
        \cup { Raise(e) : e \in DaoKeyErrors \cup DaoOtherErrors }

\* ExceptKeyError catching every exception.
ExceptAnyError(res) ==
    IF res.kind = "raise" THEN Raise("KeyError('key_error')") ELSE res

\* return dao(...)  except KeyError: traceback.print_exc(); raise KeyError('key_error')
ExceptKeyError(res) ==
    IF res.kind = "raise" /\ res.error \in DaoKeyErrors
       THEN Raise("KeyError('key_error')")
       ELSE res

SellerIdle ==
    /\ seller_pc = "idle"
    /\ seller_call = [method |-> "none", connection |-> "none", data |-> [seller_id |-> 0]]
    /\ dao_log = << >>
    /\ seller_out = << >>

\* A service method is called and calls its DAO method with what it was given.
SellerServiceCall ==
    /\ seller_pc \in {"idle", "returned"}
    /\ \E m \in ServiceMethods : \E c \in SellerConnections : \E d \in SellerData :
          /\ seller_call' = [method |-> m, connection |-> c, data |-> d]
          /\ dao_log' = << [method |-> DaoMethodOf(m), connection |-> c, data |-> d] >>
    /\ seller_pc' = "in_dao"
    /\ seller_out' = << >>
    /\ UNCHANGED nonSellerVars

\* The DAO method returns or raises, and the service method with it.
SellerServiceReturn ==
    /\ seller_pc = "in_dao"
    /\ \E res \in DaoResults :
          seller_out' = << [dao |-> res, out |-> ExceptKeyError(res)] >>
    /\ seller_pc' = "returned"
    /\ UNCHANGED <<seller_call, dao_log>>
    /\ UNCHANGED nonSellerVars

SellerNext == SellerServiceCall \/ SellerServiceReturn

(***************************************************************************)
(* The specifications.                                                     *)
(***************************************************************************)
Init == ViewInit /\ CreateIdle /\ SenderIdle /\ SellerIdle

Next == ViewNext

Spec == Init /\ [][Next]_vars

InitCreate == ViewInit /\ CreateInit /\ SenderIdle /\ SellerIdle

NextCreate == CreateNext

SpecCreate == InitCreate /\ [][NextCreate]_vars

InitSender == ViewInit /\ CreateIdle /\ SenderInit /\ SellerIdle

NextSender == SenderNext

SpecSender == InitSender /\ [][NextSender]_vars

InitSeller == ViewInit /\ CreateIdle /\ SenderIdle /\ SellerIdle

NextSeller == SellerNext

SpecSeller == InitSeller /\ [][NextSeller]_vars


(***************************************************************************)
(* Properties of the view layer.                                           *)
(***************************************************************************)
\* The positions at which request r made a call of the given kind.
CallsOf(r, op) == { i \in DOMAIN calls[r] : calls[r][i].op = op }

\* The outcome of the (only) call of the given kind, "absent" if none was made.
OutcomeOf(r, op) ==
    IF CallsOf(r, op) = {} THEN "absent"
    ELSE calls[r][CHOOSE i \in CallsOf(r, op) : TRUE].out

Ended(r) == pc[r] = "done"

Succeeded(r) == Ended(r) /\ raised[r] = "none" /\ retval[r] # << >>

WriteHandlers == {"DestinationView.post", "DestinationView.delete", "StoreOrderAddView.post"}

ReadHandlers == {"DestinationDetailView.get", "DestinationView.get", "StoreOrderView.get"}

ReportedAfterServiceError(r) ==
    IF OutcomeOf(r, "close") # "ok" THEN "DatabaseCloseFail"
    ELSE IF OutcomeOf(r, "rollback") # "ok" THEN OutcomeOf(r, "rollback")
    ELSE OutcomeOf(r, "service")

\* C3 (as stated): in the write handlers, whenever the service raises, commit
\* is never called, rollback is called before the connection is closed, and
\* the error reported is the one the service raised.
C3_ServiceErrorReported ==
    \A r \in Requests :
        (Ended(r) /\ handler[r] \in WriteHandlers
               /\ OutcomeOf(r, "service") \in ServiceErrors) =>
            /\ CallsOf(r, "commit") = {}
            /\ \E i \in CallsOf(r, "rollback") : \E j \in CallsOf(r, "close") : i < j
            /\ raised[r] = OutcomeOf(r, "service")

\* C3 (amended): in the write handlers, whenever the service raises, commit
\* is never called, exactly one rollback is called and it precedes the close,
\* nothing of the request is committed, and the error reported is the
\* service's error provided rollback and close return; a raising close
\* reports DatabaseCloseFail, and otherwise a raising rollback reports the
\* rollback's own error.
C3_RollbackThenCloseOnServiceError ==
    \A r \in Requests :
        (Ended(r) /\ handler[r] \in WriteHandlers
               /\ OutcomeOf(r, "service") \in ServiceErrors) =>
            /\ CallsOf(r, "commit") = {}
            /\ Cardinality(CallsOf(r, "rollback")) = 1
            /\ \E i \in CallsOf(r, "rollback") : \E j \in CallsOf(r, "close") : i < j
            /\ r \notin committed
            /\ raised[r] = ReportedAfterServiceError(r)

\* C3 witness: a write request ended after its service raised, rollback
\* returned and close raised, so that DatabaseCloseFail is what is reported.
C3_Witness ==
    \E r \in Requests :
        /\ Ended(r) /\ handler[r] = "DestinationView.delete"
        /\ OutcomeOf(r, "service") \in ServiceErrors
        /\ OutcomeOf(r, "rollback") = "ok"
        /\ OutcomeOf(r, "close") = "CloseError"
        /\ raised[r] = "DatabaseCloseFail"

\* C6: a request to DestinationView.post, DestinationView.delete or
\* StoreOrderAddView.post with a malformed phone, postal-code, email, decimal
\* or numeric-string parameter is refused by validation: it never acquires a
\* connection, never calls the service, writes nothing, and ends with
\* InvalidRequest.
C6_MalformedRejectedBeforeDatabase ==
    \A r \in Requests :
        (handler[r] \in WriteHandlers /\ malformed[r] # {}) =>
            /\ pc[r] = "done"
            /\ raised[r] = "InvalidRequest"
            /\ connection[r] = "unbound"
            /\ calls[r] = << >>
            /\ pending[r] = {}
            /\ r \notin committed

\* C6 witness: an order request whose only malformed parameter is the
\* sender's email has been refused, while another request reached the service.
C6_Witness ==
    \E r, q \in Requests :
        /\ handler[r] = "StoreOrderAddView.post"
        /\ malformed[r] = { [param |-> "senderEmail", format |-> "email"] }
        /\ Ended(r)
        /\ CallsOf(q, "service") # {}

\* C10 (as stated): every successful response of every handler has message
\* "success" and a result field.
C10_SuccessHasResult ==
    \A r \in Requests :
        Succeeded(r) =>
            /\ retval[r][1].body.message = "success"
            /\ "result" \in DOMAIN retval[r][1].body

\* C10 (amended): every successful response has message "success"; it has a
\* result field for the GET handlers and StoreOrderAddView.post, and has no
\* result field for DestinationView.post and DestinationView.delete.
C10_SuccessEnvelope ==
    \A r \in Requests :
        Succeeded(r) =>
            /\ retval[r][1].body.message = "success"
            /\ ("result" \in DOMAIN retval[r][1].body) <=>
                   (handler[r] \notin {"DestinationView.post", "DestinationView.delete"})

\* C10 witness: a DestinationView.post and a StoreOrderView.get have both
\* answered with success.
C10_Witness ==
    \E r, q \in Requests :
        /\ Succeeded(r) /\ handler[r] = "DestinationView.post"
        /\ Succeeded(q) /\ handler[q] = "StoreOrderView.get"

(***************************************************************************)
(* Properties of CreateProductDao and the product-creation transaction.    *)
(***************************************************************************)
Tables == { "products", "product_images", "stocks", "product_histories" }

InsertMethods ==
    { "insert_product", "insert_product_image", "insert_stock", "insert_product_history" }

DaoCallsOf(method) == { i \in DOMAIN dao_calls : dao_calls[i].method = method }

SomeStepRaised == \E i \in DOMAIN dao_calls : dao_calls[i].out.kind = "raise"

NothingCommitted == db = db0

\* All five steps returned, each table has one row more than at the start,
\* and the product the update named carries the product code.
EverythingCommitted ==
    /\ Len(dao_calls) = 5
    /\ ~SomeStepRaised
    /\ \A t \in Tables : Len(db[t]) = Len(db0[t]) + 1
    /\ db.products[data.product_id].product_code = data.product_code

\* C1: product creation is all-or-nothing: at every moment, and so when the
\* request has ended, the committed tables hold either every row of the five
\* steps or exactly what they held before the request; once a step has
\* raised, nothing the earlier steps wrote is ever committed, and nothing
\* uncommitted outlives the request.
C1_ProductCreationAllOrNothing ==
    /\ NothingCommitted \/ EverythingCommitted
    /\ SomeStepRaised => NothingCommitted
    /\ cpc = "done" => tx = db

\* C1 witness: product, code and image were written, insert_stock raised its
\* denied error, and the request ended with the tables as they were.
C1_Witness ==
    /\ cpc = "done"
    /\ Len(dao_calls) = 4
    /\ dao_calls[1].exec = "inserted"
    /\ dao_calls[3].exec = "inserted"
    /\ dao_calls[4].out = Raise("StockCreateDenied")
    /\ Len(db0.products) > 0
    /\ db = db0

TableOf(method) ==
    CASE method = "insert_product"         -> "products"
      [] method = "insert_product_image"   -> "product_images"
      [] method = "insert_stock"           -> "stocks"
      [] method = "insert_product_history" -> "product_histories"

DeniedErrorOf(method) ==
    CASE method = "insert_product"         -> "ProductCreateDenied"
      [] method = "insert_product_image"   -> "ProductImageCreateDenied"
      [] method = "insert_stock"           -> "StockCreateDenied"
      [] method = "insert_product_history" -> "ProductHistoryCreateDenied"

\* The call inserted a row into the table of its method.
Inserted(c) == Len(c.after[TableOf(c.method)]) = Len(c.before[TableOf(c.method)]) + 1

\* The value is an identifier no row of the table had before the call.
IsNewIdentifier(c) ==
    /\ c.out.value # None
    /\ c.out.value[1] \notin 0..Len(c.before[TableOf(c.method)])

\* C4 (as stated): each insert method returns a new identifier when a row was
\* inserted, raises its own denied error when zero rows are affected, and
\* never returns normally when no row was inserted.
C4_InsertReturnsIdentifier ==
    \A i \in DOMAIN dao_calls :
        LET c == dao_calls[i] IN
        c.method \in InsertMethods =>
            /\ Inserted(c) => (c.out.kind = "return" /\ IsNewIdentifier(c))
            /\ c.exec = "none" => c.out = Raise(DeniedErrorOf(c.method))
            /\ c.out.kind = "return" => Inserted(c)

\* C4 (amended): when a row was inserted, insert_product returns its new
\* identifier and insert_product_image, insert_stock and
\* insert_product_history return None; each raises its own denied error when
\* zero rows are affected, leaving the tables as they were; none returns
\* normally when no row was inserted.
C4_InsertReturnsOrDenied ==
    \A i \in DOMAIN dao_calls :
        LET c == dao_calls[i] IN
        c.method \in InsertMethods =>
            /\ Inserted(c) =>
                  /\ c.out.kind = "return"
                  /\ IF c.method = "insert_product"
                        THEN IsNewIdentifier(c)
                        ELSE c.out.value = None
            /\ c.exec = "none" =>
                  (c.out = Raise(DeniedErrorOf(c.method)) /\ c.after = c.before)
            /\ c.out.kind = "return" => Inserted(c)

\* C4 witness: insert_product returned a new identifier, insert_product_image
\* inserted a row and returned None, insert_stock returned, and
\* insert_product_history affected no row and raised its denied error.
C4_Witness ==
    /\ Len(dao_calls) = 5
    /\ Len(db0.products) > 0
    /\ dao_calls[1].out = Return(<<Len(db0.products) + 1>>)
    /\ Inserted(dao_calls[3]) /\ dao_calls[3].out = Return(None)
    /\ dao_calls[5].exec = "none"
    /\ dao_calls[5].out = Raise("ProductHistoryCreateDenied")

\* No products row has the id, or the row with the id is deleted.
NoLiveProduct(products, id) ==
    \/ id \notin 1..Len(products)
    \/ products[id].is_deleted = 1

\* C5: whenever the UPDATE of update_product_code runs and no products row has
\* the given product_id, or the row with that id has is_deleted set, the
\* method raises ProductCodeUpdatedDenied and no row's product_code is changed.
C5_UpdateDeniedWithoutLiveRow ==
    \A i \in DaoCallsOf("update_product_code") :
        LET c == dao_calls[i] IN
        (c.exec = "executed" /\ NoLiveProduct(c.before.products, c.data.product_id)) =>
            /\ c.out = Raise("ProductCodeUpdatedDenied")
            /\ c.after = c.before

\* C5 witness: the update named a row that exists, is deleted and carries
\* another product code, and was denied.
C5_Witness ==
    \E i \in DaoCallsOf("update_product_code") :
        LET c == dao_calls[i] IN
        /\ c.exec = "executed"
        /\ c.data.product_id \in 1..Len(c.before.products)
        /\ c.before.products[c.data.product_id].is_deleted = 1
        /\ c.before.products[c.data.product_id].product_code # c.data.product_code
        /\ c.out = Raise("ProductCodeUpdatedDenied")

(***************************************************************************)
(* Properties of SenderDao.                                                *)
(***************************************************************************)
\* The last call was of the method, had the key user_id, and its query ran.
SenderQueried(method) ==
    /\ sender_call # << >>
    /\ sender_call[1].method = method
    /\ "user_id" \in DOMAIN sender_call[1].data
    /\ sender_call[1].exec = "executed"

\* C7: when its query runs, get_sender_info_dao returns the record
\* {name: "", phone: "", email: ""} and raises nothing if no
\* customer_information row exists for the user_id, and returns the row's
\* name, phone and email unchanged if one exists.
C7_MissingSenderReturnsEmptyFields ==
    SenderQueried("get_sender_info_dao") =>
        LET rows == customer_information[sender_call[1].data.user_id] IN
        IF rows = << >>
           THEN sender_call[1].out = Return(<<[name |-> "", phone |-> "", email |-> ""]>>)
           ELSE sender_call[1].out = Return(rows)

\* C7 witness: a sender without a row was looked up and empty fields came
\* back, while another account has a row with a name.
C7_Witness ==
    /\ SenderQueried("get_sender_info_dao")
    /\ customer_information[sender_call[1].data.user_id] = << >>
    /\ sender_call[1].out.kind = "return"
    /\ \E u \in UserIds : customer_information[u] # << >> /\ customer_information[u][1].name # ""

\* C8 (as stated): when its query runs, get_user_permission_check_dao raises
\* AccountNotExist('account_does_not_exist') if no accounts row has the
\* user_id, and returns the row's permission type if one exists.
C8_MissingAccountRaisesAccountNotExist ==
    SenderQueried("get_user_permission_check_dao") =>
        LET rows == accounts[sender_call[1].data.user_id] IN
        IF rows = << >>
           THEN sender_call[1].out = Raise("AccountNotExist('account_does_not_exist')")
           ELSE sender_call[1].out = Return(rows)

(***************************************************************************)
(* Properties of SellerShopService.                                        *)
(***************************************************************************)
\* C9: each SellerShopService method calls its own DAO method exactly once,
\* with the connection and data it was given; it returns what the DAO
\* returned; a KeyError from the DAO leaves as KeyError('key_error'), and
\* every other exception from the DAO leaves unchanged.
C9_ServicePassesThrough ==
    /\ seller_pc \in {"in_dao", "returned"} =>
          /\ Len(dao_log) = 1
          /\ dao_log[1].connection = seller_call.connection
          /\ dao_log[1].data = seller_call.data
          /\ <<seller_call.method, dao_log[1].method>> \in
                { <<"get_seller_info_service", "get_seller_info_dao">>,
                  <<"get_seller_product_search_service", "get_seller_product_search_dao">>,
                  <<"get_seller_category_service", "get_seller_category_dao">>,
                  <<"get_seller_product_list_service", "get_seller_product_list_dao">> }
    /\ seller_pc = "returned" =>
          LET dao == seller_out[1].dao
              out == seller_out[1].out
          IN  /\ dao.kind = "return" => out = dao
              /\ (dao.kind = "raise" /\ dao.error \in DaoKeyErrors) =>
                    out = Raise("KeyError('key_error')")
              /\ (dao.kind = "raise" /\ dao.error \notin DaoKeyErrors) => out = dao

\* C9 witness: get_seller_product_list_service called its DAO, which raised
\* a KeyError naming a key, and the service raised KeyError('key_error').
C9_Witness ==
    /\ seller_pc = "returned"
    /\ seller_call.method = "get_seller_product_list_service"
    /\ seller_out[1].dao = Raise("KeyError('seller_id')")
    /\ seller_out[1].out = Raise("KeyError('key_error')")

(***************************************************************************)
(* Concurrent requests, failed acquisition, failed close, read handlers.   *)
(***************************************************************************)
\* Request r takes a step of its handler.
StepOf(r) == pc'[r] # pc[r]

\* With this step request r made a call of the given kind that returned.
CallsNow(r, op) ==
    /\ Len(calls'[r]) = Len(calls[r]) + 1
    /\ calls'[r][Len(calls'[r])] = Call(op, "ok")

\* C11: under any interleaving of the requests, a step of one request leaves
\* the connection, the uncommitted changes, the calls and the outcome of
\* every other request as they were: its commit, rollback or close never
\* commits, rolls back or closes another request's transaction.  What a
\* commit adds to the committed changes is exactly what the committing
\* request wrote, and no other step adds or removes a committed change.
C11_RequestsIsolated ==
    [][ \A r \in Requests :
          StepOf(r) =>
             /\ \A q \in Requests \ {r} :
                   /\ connection'[q] = connection[q]
                   /\ pending'[q] = pending[q]
                   /\ calls'[q] = calls[q]
                   /\ raised'[q] = raised[q]
                   /\ retval'[q] = retval[q]
             /\ pending[r] \subseteq {r}
             /\ pending'[r] \subseteq {r}
             /\ IF CallsNow(r, "commit")
                   THEN committed' = committed \cup pending[r]
                   ELSE committed' = committed ]_vars

\* C11 witness: one write request has committed its change and ended while
\* another, which began before that, still holds its own uncommitted change
\* on its open connection.
C11_Witness ==
    \E r, q \in Requests :
        /\ r # q
        /\ Ended(r) /\ committed = {r}
        /\ connection[q] = "open" /\ pending[q] = {q}
        /\ pc[q] = "except"

\* C12: when get_connection raises, in any handler, the name `connection`
\* stays unbound: the request makes no further call (no service call, no
\* commit, no rollback, no close), commits nothing, and ends with
\* DatabaseCloseFail in place of the acquisition error; in a write handler
\* the rollback fails on the unbound name before the close check does.
C12_FailedAcquisitionEndsInCloseFail ==
    \A r \in Requests :
        OutcomeOf(r, "get_connection") = "ConnectError" =>
            /\ connection[r] = "unbound"
            /\ calls[r] = << Call("get_connection", "ConnectError") >>
            /\ pending[r] = {}
            /\ r \notin committed
            /\ retval[r] = << >>
            /\ pc[r] = "except" => raised[r] = "ConnectError"
            /\ pc[r] = "finally" =>
                  raised[r] = IF handler[r] \in WriteHandlers
                                 THEN "UnboundLocalError" ELSE "ConnectError"
            /\ Ended(r) => raised[r] = "DatabaseCloseFail"

\* C12 witness: a write request and a read request have both ended after
\* get_connection raised.
C12_Witness ==
    \E r, q \in Requests :
        /\ Ended(r) /\ handler[r] = "StoreOrderAddView.post"
        /\ OutcomeOf(r, "get_connection") = "ConnectError"
        /\ Ended(q) /\ handler[q] = "StoreOrderView.get"
        /\ OutcomeOf(q, "get_connection") = "ConnectError"

\* C13: in the write handlers, if close() raises after the service call and
\* the commit both succeeded, the request ends with DatabaseCloseFail and no
\* response, no rollback is attempted, and the request's change stays
\* committed.
C13_CloseFailureAfterCommit ==
    \A r \in Requests :
        (Ended(r) /\ handler[r] \in WriteHandlers
               /\ OutcomeOf(r, "service") = "ok"
               /\ OutcomeOf(r, "commit") = "ok"
               /\ OutcomeOf(r, "close") = "CloseError") =>
            /\ raised[r] = "DatabaseCloseFail"
            /\ retval[r] = << >>
            /\ CallsOf(r, "rollback") = {}
            /\ r \in committed

\* C13 witness: a DestinationView.post ended with DatabaseCloseFail although
\* its change is committed.
C13_Witness ==
    \E r \in Requests :
        /\ Ended(r) /\ handler[r] = "DestinationView.post"
        /\ OutcomeOf(r, "commit") = "ok"
        /\ OutcomeOf(r, "close") = "CloseError"
        /\ raised[r] = "DatabaseCloseFail"
        /\ r \in committed

\* C14: a read handler never calls commit or rollback, whether its service
\* returns or raises: after the service call the only call it makes is one
\* close; it writes nothing and nothing of it is ever committed.
C14_ReadHandlersOnlyClose ==
    \A r \in Requests :
        handler[r] \in ReadHandlers =>
            /\ CallsOf(r, "commit") = {}
            /\ CallsOf(r, "rollback") = {}
            /\ \A i \in DOMAIN calls[r] :
                  calls[r][i].op \in {"get_connection", "service", "close"}
            /\ \A i \in CallsOf(r, "service") : \A j \in DOMAIN calls[r] :
                  j > i => (calls[r][j].op = "close" /\ j = i + 1)
            /\ pending[r] = {}
            /\ r \notin committed

\* C14 witness: a read request whose service raised and one whose service
\* returned have both ended, each having closed its connection.
C14_Witness ==
    \E r, q \in Requests :
        /\ Ended(r) /\ handler[r] = "DestinationDetailView.get"
        /\ OutcomeOf(r, "service") = "ServiceError"
        /\ CallsOf(r, "close") # {}
        /\ Ended(q) /\ handler[q] = "StoreOrderView.get"
        /\ OutcomeOf(q, "service") = "ok"
        /\ CallsOf(q, "close") # {}

=============================================================================
